---- MODULE Spec2Model ----
(***************************************************************************)
(* goinggo/task: the process supervisor (package controller).              *)
(*                                                                         *)
(* Two goroutines are modelled: the main goroutine executing Run -> init   *)
(* -> start -> stop, and the task goroutine executing launchProcessor.     *)
(* They meet on the unbuffered channel `complete`; the OS reaches the      *)
(* main goroutine through the one-slot channel `sigChan` and the runtime   *)
(* timer through the channel returned by time.After.                       *)
(*                                                                         *)
(* A Go select first polls its cases (picking at random among the ready    *)
(* ones) and, when none is ready, parks the goroutine on all of them; the  *)
(* first channel operation that arrives then resolves the select in the    *)
(* same atomic step.  pc = "poll" and pc = "wait" are these two phases.    *)
(*                                                                         *)
(* The session manager (package mongo, final revision) is the second       *)
(* component: a package-level singleton holding a map from session names   *)
(* to dialed master connections.  It does not depend on the supervisor and *)
(* has its own specification, MongoSpec, over the same variables; Spec     *)
(* leaves the manager's variables alone and MongoSpec the supervisor's.    *)
(*                                                                         *)
(* ExistsSpec applies the manager's function CollectionExists to bounded   *)
(* inputs.  AggressiveSpec is the revision of the supervisor that asks the *)
(* OS for every signal and has no timeout; it shares the supervisor's      *)
(* variables and the actions whose code the two revisions have in common.  *)
(***************************************************************************)
EXTENDS Integers, Sequences, FiniteSets

\* ---------------------------------------------------------------- bounds
MaxTimeout == 2        \* largest configured timeoutSeconds
MaxDuration == 3       \* longest time the user task's Run takes
MaxInterrupts == 2     \* number of SIGINTs the OS delivers
MaxDials == 2          \* master connections mgo.DialWithInfo establishes
MaxHandles == 2        \* handles Copy()/Clone() hand out
MaxCollections == 2    \* collections database.CollectionNames() lists

\* ---------------------------------------------------------------- values
NoExit == -1           \* the process has not ended
KilledStatus == 137    \* ended by the kernel on SIGKILL (128 + 9), no exit code
SigChanCap == 1        \* make(chan os.Signal, 1)

Nil == "nil"
TaskError == "task_error"      \* a non-nil error returned by userControl.Run
PanicError == "panic_error"    \* fmt.Errorf("%v", r) built by CatchPanic

TaskOutcomes == {"nil", "error", "panic", "hang"}
InitFaultPoints == {"StrapEnv", "Load", "Log"}
SignalKinds == {"SIGKILL", "SIGINT", "SIGTERM"}   \* SIGTERM for any other signal

MASTER_SESSION == "master"
SessionNames == {MASTER_SESSION, "s1"}
NoSession == 0                            \* a nil *mongoSession or *mgo.Session
Manager == "manager"                      \* singleton = &mongoManager{...}
NotFoundError == "not_found"              \* "Unable To Locate Session %s"
ConnectionError == "connection_error"     \* the error of mgo.DialWithInfo
DialOutcomes == {"ok", "fail", "panic"}
CollectionNames == {"jobs", "jobs_details", "system.indexes"}

VARIABLES
    envSet,          \* os.Getenv(environment) != ""
    cfgTimeout,      \* the strap "timeoutSeconds"
    taskDuration,    \* time userControl.Run takes
    taskOutcome,     \* how userControl.Run ends
    pc,              \* position of the main goroutine
    phases,          \* the phases Run has entered, in order
    initResult,      \* "pending", "ok", "fatal" (log.Fatalf) or "panic"
    loaded,          \* straps.Load has completed
    TimeoutSeconds,  \* helper.TimeoutSeconds
    shutdown,        \* _This.shutdown
    notified,        \* signal.Notify(sigChan, os.Interrupt) is in effect
    sigChan,         \* number of signals buffered in sigChan
    interrupts,      \* SIGINTs delivered by the OS so far
    sigHandled,      \* signals received by the select
    timer,           \* "unarmed", "armed", "fired" (value in channel), "consumed"
    elapsed,         \* time since start armed the timer
    tpc,             \* position of the task goroutine
    observed,        \* last value IsShutdown returned to the task
    runCalls,        \* number of times userControl.Run was invoked
    delivered,       \* number of values received from `complete`
    err,             \* start's named result err
    startReturns,    \* number of times start returned
    stopCalls,       \* number of times stop was invoked
    stopErr,         \* stop's result (ignored by Run)
    alerts,          \* messages logged at ALERT level (each one sends an email)
    osExit,          \* the process exit status, NoExit while it runs
    exitVia,         \* what ended the process
    singleton,       \* the package variable: Nil until Startup sets it
    sessions,        \* singleton.sessions: name -> master, NoSession if absent
    masters,         \* every mgo session DialWithInfo returned, by number
    handles,         \* every session Copy()/Clone() returned, by number
    creating,        \* the CreateSession call in progress
    ret,             \* what the last completed manager call returned
    exSession,       \* CollectionExists: the session argument, Nil for nil
    exListErr,       \* CollectionExists: database.CollectionNames() fails
    exCollections,   \* CollectionExists: the names the listing returns
    exCollection,    \* CollectionExists: the argument useCollection
    exPc,            \* CollectionExists: "called", "returned" or "panicked"
    exResult,        \* CollectionExists: the value returned
    sigBuf,          \* which signal sigChan buffers ("none" when empty)
    whatSig,         \* the signal the signal case received
    armedAt,         \* the value of elapsed when the pending timer was made
    job              \* the job-record call in progress (package data)

inputs == <<envSet, cfgTimeout, taskDuration, taskOutcome>>
initVars == <<initResult, loaded, TimeoutSeconds>>
sigVars == <<notified, sigChan, interrupts, sigHandled>>
taskVars == <<tpc, observed, runCalls, delivered>>
startVars == <<err, startReturns>>
stopVars == <<stopCalls, stopErr>>
exitVars == <<osExit, exitVia>>

mongoVars == <<singleton, sessions, masters, handles, creating, ret>>

ctlVars == <<envSet, cfgTimeout, taskDuration, taskOutcome, pc, phases,
             initResult, loaded, TimeoutSeconds, shutdown, notified, sigChan,
             interrupts, sigHandled, timer, elapsed, tpc, observed, runCalls,
             delivered, err,
             startReturns, stopCalls, stopErr, alerts, osExit, exitVia,
             sigBuf, whatSig>>

killVars == <<sigBuf, whatSig>>

existsVars == <<exSession, exListErr, exCollections, exCollection, exPc,
               exResult>>

vars == <<ctlVars, mongoVars, existsVars, armedAt, job>>

\* ------------------------------------------------------------- helpers

\* tracelog.ALERT writes the line and mails it; tracelog.TRACE only writes it.
ALERT(log, msg) == log \cup {msg}
TRACE(log, msg) == log

\* The process is still running.
Alive == exitVia = "none"

\* os.Exit(code): the process ends at once, deferred calls do not run.
osExitCall(code, via) ==
    /\ osExit' = code
    /\ exitVia' = via

\* controller.IsShutdown
IsShutdown == shutdown = 1

\* launchProcessor with `err := userControl.Run()`: the assignment makes a
\* new variable and the deferred function sends the outer one, always nil.
launchErr_Shadowed == Nil

\* The value launchProcessor's deferred function sends on `complete`: the
\* local err, which is still nil when Run panicked before assigning it.
launchErr == IF taskOutcome = "error" THEN TaskError ELSE Nil

\* launchProcessor sending on `complete` at its end as well as in the
\* deferred function: after the first send it blocks in a second one.
AfterSend_SendsAgain == "send"

\* Position of the task goroutine once its send on `complete` was taken:
\* the deferred call returns and a panic in Run resumes unwinding.
AfterSend == IF taskOutcome = "panic" THEN "panicking" ELSE "done"

\* The completion notification was taken by the supervisor.
Received == tpc \in {"done", "panicking", "crashed"}

\* ---------------------------------------------------------------- Init
\* Run: _This = &controlManager{shutdown: 0, userControl: userControl}
\* The empty map of a new mongoManager; a lookup of an absent key gives nil.
EmptyRegistry == [n \in SessionNames |-> NoSession]

\* No CreateSession call is in progress.
NotCreating ==
    [stage |-> "none", name |-> "", conn |-> NoSession, caller |-> "",
     before |-> EmptyRegistry]

\* No manager call has completed yet.
NoCall ==
    [op |-> "none", name |-> "", entry |-> NoSession, handle |-> NoSession,
     err |-> Nil, dial |-> "none", panicked |-> FALSE, attempts |-> 0,
     replaced |-> NoSession, faults |-> 0]

\* The package mongo before any call: var singleton *mongoManager is nil.
MongoIdle ==
    /\ singleton = Nil
    /\ sessions = EmptyRegistry
    /\ masters = <<>>
    /\ handles = <<>>
    /\ creating = NotCreating
    /\ ret = NoCall

\* CollectionExists has not been called.
ExistsIdle ==
    /\ exSession = Nil
    /\ exListErr = FALSE
    /\ exCollections = <<>>
    /\ exCollection = ""
    /\ exPc = "idle"
    /\ exResult = FALSE

\* No signal is buffered or being handled.
NoSignal == sigBuf = "none" /\ whatSig = "none"

\* No job-record operation has been called.
NoJob ==
    [op |-> "none", pc |-> "idle", inWindow |-> FALSE, acquire |-> "none",
     outcome |-> "none", handle |-> NoSession, deferred |-> FALSE,
     acquired |-> <<>>, released |-> <<>>, err |-> Nil]

JobsIdle == job = NoJob

Init ==
    /\ MongoIdle
    /\ ExistsIdle
    /\ JobsIdle
    /\ NoSignal
    /\ envSet \in BOOLEAN
    /\ cfgTimeout \in 0..MaxTimeout
    /\ taskDuration \in 0..MaxDuration
    /\ taskOutcome \in TaskOutcomes
    /\ pc = "init"
    /\ phases = <<>>
    /\ initResult = "pending"
    /\ loaded = FALSE
    /\ TimeoutSeconds = 0
    /\ shutdown = 0
    /\ notified = FALSE
    /\ sigChan = 0
    /\ interrupts = 0
    /\ sigHandled = 0
    /\ timer = "unarmed"
    /\ elapsed = 0
    /\ armedAt = 0
    /\ tpc = "idle"
    /\ observed = FALSE
    /\ runCalls = 0
    /\ delivered = 0
    /\ err = Nil
    /\ startReturns = 0
    /\ stopCalls = 0
    /\ stopErr = Nil
    /\ alerts = {}
    /\ osExit = NoExit
    /\ exitVia = "none"

\* ------------------------------------------------------- Run / init
\* init reporting the unset variable with log.Printf: it goes on to load
\* the straps and returns nil.
InitEnvMissing_Printf ==
    /\ Alive /\ pc = "init"
    /\ ~envSet
    /\ phases' = Append(phases, "init")
    /\ loaded' = TRUE
    /\ TimeoutSeconds' = cfgTimeout
    /\ initResult' = "ok"
    /\ pc' = "start"
    /\ UNCHANGED <<mongoVars, existsVars, armedAt, job, killVars, inputs, shutdown, sigVars, timer, elapsed, taskVars,
                   startVars, stopVars, alerts, exitVars>>

\* init: the environment variable is unset, log.Fatalf ends the process.
InitEnvMissing ==
    /\ Alive /\ pc = "init"
    /\ ~envSet
    /\ phases' = Append(phases, "init")
    /\ initResult' = "fatal"
    /\ pc' = "exited"
    /\ osExitCall(1, "fatal")
    /\ UNCHANGED <<mongoVars, existsVars, armedAt, job, killVars, inputs, loaded, TimeoutSeconds, shutdown, sigVars, timer,
                   elapsed, taskVars, startVars, stopVars, alerts>>

\* init whose deferred function recovers and logs but does not exit: init
\* returns the untouched nil err and Run goes on.
InitPanic_NoExit ==
    /\ Alive /\ pc = "init"
    /\ \E at \in InitFaultPoints :
         /\ at # "StrapEnv" => envSet
         /\ loaded' = (at = "Log")
         /\ TimeoutSeconds' = IF at = "Log" THEN cfgTimeout ELSE TimeoutSeconds
    /\ phases' = Append(phases, "init")
    /\ initResult' = "panic"
    /\ pc' = "start"
    /\ UNCHANGED <<mongoVars, existsVars, armedAt, job, killVars, inputs, shutdown, sigVars, timer, elapsed, taskVars,
                   startVars, stopVars, alerts, exitVars>>

\* init: a panic is recovered by the deferred function, which calls
\* os.Exit(1).  StrapEnv runs before the environment check; straps.Load and
\* the log start-up run after it.
InitPanic ==
    /\ Alive /\ pc = "init"
    /\ \E at \in InitFaultPoints :
         /\ at # "StrapEnv" => envSet
         /\ loaded' = (at = "Log")
         /\ TimeoutSeconds' = IF at = "Log" THEN cfgTimeout ELSE TimeoutSeconds
    /\ phases' = Append(phases, "init")
    /\ initResult' = "panic"
    /\ pc' = "exited"
    /\ osExitCall(1, "init_panic")
    /\ UNCHANGED <<mongoVars, existsVars, armedAt, job, killVars, inputs, shutdown, sigVars, timer, elapsed, taskVars,
                   startVars, stopVars, alerts>>

\* init runs to its end and returns its err, which nothing assigned; Run
\* finds it nil and goes on to start.
InitOk ==
    /\ Alive /\ pc = "init"
    /\ envSet
    /\ phases' = Append(phases, "init")
    /\ loaded' = TRUE
    /\ TimeoutSeconds' = cfgTimeout
    /\ initResult' = "ok"
    /\ pc' = "start"
    /\ UNCHANGED <<mongoVars, existsVars, armedAt, job, killVars, inputs, shutdown, sigVars, timer, elapsed, taskVars,
                   startVars, stopVars, alerts, exitVars>>

\* ------------------------------------------------------------ start
\* start up to the control loop: register for SIGINT, arm the timeout, make
\* the completion channel and launch the task goroutine.
StartBegin ==
    /\ Alive /\ pc = "start"
    /\ phases' = Append(phases, "start")
    /\ notified' = TRUE
    /\ timer' = "armed"
    /\ elapsed' = 0
    /\ tpc' = "running"
    /\ runCalls' = runCalls + 1
    /\ pc' = "poll"
    /\ UNCHANGED <<mongoVars, existsVars, armedAt, job, killVars, inputs, initVars, shutdown, sigChan, interrupts,
                   sigHandled, observed, delivered, startVars, stopVars,
                   alerts, exitVars>>

\* helper.CatchPanic: recover, log at ALERT level, store the error through
\* the pointer.
CatchPanic(log) == ALERT(log, "PANIC Defered")

\* start panics before it reaches the control loop (in its first log call);
\* the deferred CatchPanic turns the panic into start's result.
StartPanic ==
    /\ Alive /\ pc = "start"
    /\ phases' = Append(phases, "start")
    /\ alerts' = CatchPanic(alerts)
    /\ err' = PanicError
    /\ startReturns' = startReturns + 1
    /\ pc' = "stop"
    /\ UNCHANGED <<mongoVars, existsVars, armedAt, job, killVars, inputs, initVars, shutdown, sigVars, timer, elapsed,
                   taskVars, stopVars, exitVars>>

\* select, poll phase: a signal is buffered.
PollSig ==
    /\ Alive /\ pc = "poll"
    /\ sigChan > 0
    /\ sigChan' = sigChan - 1
    /\ sigHandled' = sigHandled + 1
    /\ pc' = "sig_case"
    /\ UNCHANGED <<mongoVars, existsVars, armedAt, job, killVars, inputs, phases, initVars, shutdown, notified, interrupts,
                   timer, elapsed, taskVars, startVars, stopVars, alerts,
                   exitVars>>

\* select, poll phase: the timer's value is in its channel.
PollTimeout ==
    /\ Alive /\ pc = "poll"
    /\ timer = "fired"
    /\ timer' = "consumed"
    /\ pc' = "timeout_case"
    /\ UNCHANGED <<mongoVars, existsVars, armedAt, job, killVars, inputs, phases, initVars, shutdown, sigVars, elapsed,
                   taskVars, startVars, stopVars, alerts, exitVars>>

\* select, poll phase: the task goroutine is blocked sending on `complete`.
PollComplete ==
    /\ Alive /\ pc = "poll"
    /\ tpc = "send"
    /\ err' = launchErr
    /\ tpc' = AfterSend
    /\ delivered' = delivered + 1
    /\ pc' = "complete_case"
    /\ UNCHANGED <<mongoVars, existsVars, armedAt, job, killVars, inputs, phases, initVars, shutdown, sigVars, timer,
                   elapsed, observed, runCalls, startReturns, stopVars,
                   alerts, exitVars>>

\* select, no case ready: the goroutine parks on the three channels.
PollBlock ==
    /\ Alive /\ pc = "poll"
    /\ sigChan = 0 /\ timer # "fired" /\ tpc # "send"
    /\ pc' = "wait"
    /\ UNCHANGED <<mongoVars, existsVars, armedAt, job, killVars, inputs, phases, initVars, shutdown, sigVars, timer,
                   elapsed, taskVars, startVars, stopVars, alerts, exitVars>>

\* The task launched inside the control loop: every pass that follows a
\* signal starts launchProcessor again.
SigCase_Relaunch ==
    /\ Alive /\ pc = "sig_case"
    /\ alerts' = ALERT(alerts, "OS INTERRUPT")
    /\ shutdown' = 1
    /\ tpc' = "running"
    /\ runCalls' = runCalls + 1
    /\ pc' = "poll"
    /\ UNCHANGED <<mongoVars, existsVars, armedAt, job, killVars, inputs, phases, initVars, sigVars, timer, elapsed,
                   observed, delivered, startVars, stopVars, exitVars>>

\* The timeout created by the select itself (case <-time.After(...)): every
\* pass of the loop that follows a signal starts a new timer.
SigCase_Rearm ==
    /\ Alive /\ pc = "sig_case"
    /\ alerts' = ALERT(alerts, "OS INTERRUPT")
    /\ shutdown' = 1
    /\ timer' = "armed"
    /\ elapsed' = 0
    /\ pc' = "poll"
    /\ UNCHANGED <<mongoVars, existsVars, armedAt, job, killVars, inputs, phases, initVars,
                   sigVars, taskVars, startVars, stopVars, exitVars>>

\* The signal case flipping the flag instead of setting it.
SigCase_Toggle ==
    /\ Alive /\ pc = "sig_case"
    /\ alerts' = ALERT(alerts, "OS INTERRUPT")
    /\ shutdown' = 1 - shutdown
    /\ pc' = "poll"
    /\ UNCHANGED <<mongoVars, existsVars, armedAt, job, killVars, inputs, phases, initVars, sigVars, timer, elapsed,
                   taskVars, startVars, stopVars, exitVars>>

\* The signal case leaving the control loop (break ControlLoop instead of
\* continue): start returns its nil err.
SigCase_Break ==
    /\ Alive /\ pc = "sig_case"
    /\ alerts' = ALERT(alerts, "OS INTERRUPT")
    /\ shutdown' = 1
    /\ startReturns' = startReturns + 1
    /\ pc' = "stop"
    /\ UNCHANGED <<mongoVars, existsVars, armedAt, job, killVars, inputs, phases, initVars, sigVars, timer, elapsed,
                   taskVars, err, stopVars, exitVars>>

\* case <-sigChan: alert, set the shutdown flag, continue.
SigCase ==
    /\ Alive /\ pc = "sig_case"
    /\ alerts' = ALERT(alerts, "OS INTERRUPT")
    /\ shutdown' = 1
    /\ pc' = "poll"
    /\ UNCHANGED <<mongoVars, existsVars, armedAt, job, killVars, inputs, phases, initVars, sigVars, timer, elapsed,
                   taskVars, startVars, stopVars, exitVars>>

\* The timeout case leaving the control loop instead of ending the process.
TimeoutCase_Break ==
    /\ Alive /\ pc = "timeout_case"
    /\ alerts' = TRACE(alerts, "Timeout - Killing Program")
    /\ startReturns' = startReturns + 1
    /\ pc' = "stop"
    /\ UNCHANGED <<mongoVars, existsVars, armedAt, job, killVars, inputs, phases, initVars, shutdown, sigVars, timer,
                   elapsed, taskVars, err, stopVars, exitVars>>

\* case <-timeout: trace, os.Exit(1).
TimeoutCase ==
    /\ Alive /\ pc = "timeout_case"
    /\ alerts' = TRACE(alerts, "Timeout - Killing Program")
    /\ pc' = "exited"
    /\ osExitCall(1, "timeout")
    /\ UNCHANGED <<mongoVars, existsVars, armedAt, job, killVars, inputs, phases, initVars, shutdown, sigVars, timer,
                   elapsed, taskVars, startVars, stopVars>>

\* The completion case raising the shutdown flag before it leaves the loop.
CompleteCase_SetsShutdown ==
    /\ Alive /\ pc = "complete_case"
    /\ shutdown' = 1
    /\ startReturns' = startReturns + 1
    /\ pc' = "stop"
    /\ UNCHANGED <<mongoVars, existsVars, armedAt, job, killVars, inputs, phases, initVars, sigVars, timer, elapsed,
                   taskVars, err, stopVars, alerts, exitVars>>

\* The completion case with a plain break, which leaves only the select:
\* the for loop runs again and start does not return.
CompleteCase_PlainBreak ==
    /\ Alive /\ pc = "complete_case"
    /\ pc' = "poll"
    /\ UNCHANGED <<mongoVars, existsVars, armedAt, job, killVars, inputs, phases, initVars, shutdown, sigVars, timer,
                   elapsed, taskVars, startVars, stopVars, alerts, exitVars>>

\* case err = <-complete: break ControlLoop; return err.
CompleteCase ==
    /\ Alive /\ pc = "complete_case"
    /\ startReturns' = startReturns + 1
    /\ pc' = "stop"
    /\ UNCHANGED <<mongoVars, existsVars, armedAt, job, killVars, inputs, phases, initVars, shutdown, sigVars, timer,
                   elapsed, taskVars, err, stopVars, alerts, exitVars>>

\* ------------------------------------------------------ Run / stop
\* Run assigning stop's result to err (err = _This.stop()).
Stop_AssignsErr ==
    /\ Alive /\ pc = "stop"
    /\ phases' = Append(phases, "stop")
    /\ stopCalls' = stopCalls + 1
    /\ \E fault \in BOOLEAN :
         /\ stopErr' = IF fault THEN PanicError ELSE Nil
         /\ err' = IF fault THEN PanicError ELSE Nil
         /\ alerts' = IF fault THEN CatchPanic(alerts) ELSE alerts
    /\ pc' = "decide"
    /\ UNCHANGED <<mongoVars, existsVars, armedAt, job, killVars, inputs, initVars, shutdown, sigVars, timer, elapsed,
                   taskVars, startReturns, exitVars>>

\* Run testing err before it calls stop: a failed start ends the process
\* with stop never invoked.
Stop_ExitBeforeClose ==
    /\ Alive /\ pc = "stop"
    /\ IF err # Nil
         THEN /\ pc' = "exited"
              /\ osExitCall(1, "start_err")
              /\ UNCHANGED <<phases, stopVars, alerts>>
         ELSE /\ phases' = Append(phases, "stop")
              /\ stopCalls' = stopCalls + 1
              /\ \E fault \in BOOLEAN :
                   /\ stopErr' = IF fault THEN PanicError ELSE Nil
                   /\ alerts' = IF fault THEN CatchPanic(alerts) ELSE alerts
              /\ pc' = "decide"
              /\ UNCHANGED exitVars
    /\ UNCHANGED <<mongoVars, existsVars, armedAt, job, killVars, inputs, initVars, shutdown, sigVars, timer, elapsed,
                   taskVars, startVars>>

\* Run calls stop; a panic in tracelog.Stop is caught into stop's own err,
\* which Run drops.
Stop ==
    /\ Alive /\ pc = "stop"
    /\ phases' = Append(phases, "stop")
    /\ stopCalls' = stopCalls + 1
    /\ \E fault \in BOOLEAN :
         /\ stopErr' = IF fault THEN PanicError ELSE Nil
         /\ alerts' = IF fault THEN CatchPanic(alerts) ELSE alerts
    /\ pc' = "decide"
    /\ UNCHANGED <<mongoVars, existsVars, armedAt, job, killVars, inputs, initVars, shutdown, sigVars, timer, elapsed,
                   taskVars, startVars, exitVars>>

\* Run without the final test of err: it always returns 0.
RunExit_IgnoreErr ==
    /\ Alive /\ pc = "decide"
    /\ pc' = "exited"
    /\ osExitCall(0, "return")
    /\ UNCHANGED <<mongoVars, existsVars, armedAt, job, killVars, inputs, phases, initVars, shutdown, sigVars, timer,
                   elapsed, taskVars, startVars, stopVars, alerts>>

\* Run: if err != nil { os.Exit(1) }; return (osExit is 0).
RunExit ==
    /\ Alive /\ pc = "decide"
    /\ pc' = "exited"
    /\ IF err # Nil
         THEN osExitCall(1, "start_err")
         ELSE osExitCall(0, "return")
    /\ UNCHANGED <<mongoVars, existsVars, armedAt, job, killVars, inputs, phases, initVars, shutdown, sigVars, timer,
                   elapsed, taskVars, startVars, stopVars, alerts>>

\* --------------------------------------------------- the environment
\* The OS delivers SIGINT.  The signal package sends without blocking: to
\* the parked select if there is one, else into the buffer, else nowhere.
Interrupt ==
    /\ Alive /\ notified
    /\ interrupts < MaxInterrupts
    /\ interrupts' = interrupts + 1
    /\ IF pc = "wait"
         THEN /\ pc' = "sig_case"
              /\ sigHandled' = sigHandled + 1
              /\ UNCHANGED sigChan
         ELSE /\ sigChan' = IF sigChan < SigChanCap THEN sigChan + 1 ELSE sigChan
              /\ UNCHANGED <<pc, sigHandled>>
    /\ UNCHANGED <<mongoVars, existsVars, armedAt, job, killVars, inputs, phases, initVars, shutdown, notified, timer,
                   elapsed, taskVars, startVars, stopVars, alerts, exitVars>>

\* The runtime timer of time.After expires and sends on its channel.
TimerFire ==
    /\ Alive /\ timer = "armed"
    /\ elapsed >= TimeoutSeconds
    /\ IF pc = "wait"
         THEN /\ timer' = "consumed"
              /\ pc' = "timeout_case"
         ELSE /\ timer' = "fired"
              /\ UNCHANGED pc
    /\ UNCHANGED <<mongoVars, existsVars, armedAt, job, killVars, inputs, phases, initVars, shutdown, sigVars, elapsed,
                   taskVars, startVars, stopVars, alerts, exitVars>>

\* Time advances; the timer and the end of the task's Run are not overslept.
TimePending ==
    \/ timer = "armed"
    \/ tpc = "running" /\ taskOutcome # "hang"

Tick ==
    /\ Alive /\ TimePending
    /\ timer = "armed" => elapsed < TimeoutSeconds
    /\ (tpc = "running" /\ taskOutcome # "hang") => elapsed < taskDuration
    /\ elapsed' = elapsed + 1
    /\ UNCHANGED <<mongoVars, existsVars, armedAt, job, killVars, inputs, pc, phases, initVars, shutdown, sigVars, timer,
                   taskVars, startVars, stopVars, alerts, exitVars>>

\* ------------------------------------------------- launchProcessor
\* The user task reads the shutdown flag.
TaskIsShutdown ==
    /\ Alive /\ tpc = "running"
    /\ observed' = IsShutdown
    /\ UNCHANGED <<mongoVars, existsVars, armedAt, job, killVars, inputs, pc, phases, initVars, shutdown, sigVars, timer,
                   elapsed, tpc, runCalls, delivered, startVars, stopVars,
                   alerts, exitVars>>

\* userControl.Run ends (returns or panics); the deferred function sends
\* the local err on `complete`, handing it to a parked select directly.
TaskFinish ==
    /\ Alive /\ tpc = "running"
    /\ taskOutcome # "hang"
    /\ elapsed >= taskDuration
    /\ IF pc = "wait"
         THEN /\ err' = launchErr
              /\ tpc' = AfterSend
              /\ delivered' = delivered + 1
              /\ pc' = "complete_case"
         ELSE /\ tpc' = "send"
              /\ UNCHANGED <<pc, err, delivered>>
    /\ UNCHANGED <<mongoVars, existsVars, armedAt, job, killVars, inputs, phases, initVars, shutdown, sigVars, timer,
                   elapsed, observed, runCalls, startReturns, stopVars,
                   alerts, exitVars>>

\* The panic of Run, not recovered by anything in the task goroutine, ends
\* the process with the runtime's status 2.
TaskPanicCrash ==
    /\ Alive /\ tpc = "panicking"
    /\ tpc' = "crashed"
    /\ osExitCall(2, "task_panic")
    /\ UNCHANGED <<mongoVars, existsVars, armedAt, job, killVars, inputs, pc, phases, initVars, shutdown, sigVars, timer,
                   elapsed, observed, runCalls, delivered, startVars,
                   stopVars, alerts>>

\* ---------------------------------------------------------------- Next
Next ==
    \/ InitEnvMissing
    \/ InitPanic
    \/ InitOk
    \/ StartBegin
    \/ StartPanic
    \/ PollSig
    \/ PollTimeout
    \/ PollComplete
    \/ PollBlock
    \/ SigCase
    \/ TimeoutCase
    \/ CompleteCase
    \/ Stop
    \/ RunExit
    \/ Interrupt
    \/ TimerFire
    \/ Tick
    \/ TaskIsShutdown
    \/ TaskFinish
    \/ TaskPanicCrash

Spec == Init /\ [][Next]_vars

\* ------------------------------------------------ the session manager
\* What a manager call hands back to its caller.  entry is what the lookup
\* singleton.sessions[name] found when the call ran, panicked tells that the
\* call's deferred CatchPanic recovered a panic, attempts counts the
\* CloseSession calls a Shutdown made and faults those of them whose Close
\* panicked, replaced is the entry a CreateSession found under the name it
\* wrote.
Return(op, name, entry, handle, e, dial, panicked) ==
    [op |-> op, name |-> name, entry |-> entry, handle |-> handle,
     err |-> e, dial |-> dial, panicked |-> panicked, attempts |-> 0,
     replaced |-> NoSession, faults |-> 0]

\* The supervisor as Init leaves it, for one fixed configuration; the
\* manager's specification never moves it.
CtlIdle ==
    /\ envSet = TRUE
    /\ cfgTimeout = 0
    /\ taskDuration = 0
    /\ taskOutcome = "nil"
    /\ pc = "init"
    /\ phases = <<>>
    /\ initResult = "pending"
    /\ loaded = FALSE
    /\ TimeoutSeconds = 0
    /\ shutdown = 0
    /\ notified = FALSE
    /\ sigChan = 0
    /\ interrupts = 0
    /\ sigHandled = 0
    /\ timer = "unarmed"
    /\ elapsed = 0
    /\ armedAt = 0
    /\ tpc = "idle"
    /\ observed = FALSE
    /\ runCalls = 0
    /\ delivered = 0
    /\ err = Nil
    /\ startReturns = 0
    /\ stopCalls = 0
    /\ stopErr = Nil
    /\ alerts = {}
    /\ osExit = NoExit
    /\ exitVia = "none"
    /\ NoSignal

MongoInit == CtlIdle /\ MongoIdle /\ ExistsIdle /\ JobsIdle

\* Startup creating the manager only when there is none yet: a second Startup
\* keeps the map of the first.
Startup_KeepsRegistry ==
    /\ creating.stage = "none"
    /\ singleton' = Manager
    /\ creating' = [stage |-> "dial", name |-> MASTER_SESSION,
                    conn |-> NoSession, caller |-> "Startup",
                    before |-> sessions]
    /\ UNCHANGED <<sessions, masters, handles, ret, ctlVars,
                   existsVars, armedAt, job>>

\* Startup: replaces the singleton by a manager with an empty map, whatever
\* was registered before, and calls CreateSession for MASTER_SESSION.  Its
\* result is CreateSession's result.
Startup ==
    /\ creating.stage = "none"
    /\ singleton' = Manager
    /\ sessions' = EmptyRegistry
    /\ creating' = [stage |-> "dial", name |-> MASTER_SESSION,
                    conn |-> NoSession, caller |-> "Startup",
                    before |-> EmptyRegistry]
    /\ UNCHANGED <<masters, handles, ret, ctlVars,
                   existsVars, armedAt, job>>

\* CreateSession called by the program itself, up to the dial.
CreateSession ==
    /\ creating.stage = "none"
    /\ \E sessionName \in SessionNames :
         creating' = [stage |-> "dial", name |-> sessionName,
                      conn |-> NoSession, caller |-> "CreateSession",
                      before |-> sessions]
    /\ UNCHANGED <<singleton, sessions, masters, handles, ret, ctlVars,
                   existsVars, armedAt, job>>

\* CreateSession entering the entry in the map as soon as it is built,
\* before the dial's error is tested: a failed dial leaves an entry whose
\* connection is dead.
CreateDial_InsertOnFail ==
    /\ creating.stage = "dial"
    /\ \E outcome \in DialOutcomes :
         CASE outcome = "ok" ->
                /\ Len(masters) < MaxDials
                /\ masters' = Append(masters, [open |-> TRUE, configured |-> FALSE])
                /\ creating' = [creating EXCEPT !.stage = "configure",
                                                !.conn = Len(masters) + 1]
                /\ UNCHANGED <<sessions, ret>>
           [] outcome = "fail" ->
                /\ Len(masters) < MaxDials
                /\ masters' = Append(masters, [open |-> FALSE, configured |-> FALSE])
                /\ sessions' = [sessions EXCEPT ![creating.name] = Len(masters) + 1]
                /\ creating' = NotCreating
                /\ ret' = Return(creating.caller, creating.name, NoSession,
                                 NoSession, ConnectionError, "fail", FALSE)
           [] outcome = "panic" ->
                /\ creating' = NotCreating
                /\ ret' = Return(creating.caller, creating.name, NoSession,
                                 NoSession, Nil, "panic", TRUE)
                /\ UNCHANGED <<sessions, masters>>
    /\ UNCHANGED <<singleton, handles, ctlVars,
                   existsVars, armedAt, job>>

\* mgo.DialWithInfo and the test of its error.  A failed dial returns the
\* error; a panic below the dial is recovered by CatchPanic(nil, ...), which
\* has no error to write to, so the named result err goes back as nil.
CreateDial ==
    /\ creating.stage = "dial"
    /\ \E outcome \in DialOutcomes :
         CASE outcome = "ok" ->
                /\ Len(masters) < MaxDials
                /\ masters' = Append(masters, [open |-> TRUE, configured |-> FALSE])
                /\ creating' = [creating EXCEPT !.stage = "configure",
                                                !.conn = Len(masters) + 1]
                /\ UNCHANGED ret
           [] outcome = "fail" ->
                /\ creating' = NotCreating
                /\ ret' = Return(creating.caller, creating.name, NoSession,
                                 NoSession, ConnectionError, "fail", FALSE)
                /\ UNCHANGED masters
           [] outcome = "panic" ->
                /\ creating' = NotCreating
                /\ ret' = Return(creating.caller, creating.name, NoSession,
                                 NoSession, Nil, "panic", TRUE)
                /\ UNCHANGED masters
    /\ UNCHANGED <<singleton, sessions, handles, ctlVars,
                   existsVars, armedAt, job>>

\* CreateSession registering the dialed session as it is, the Set... calls
\* left out.
CreateConfigure_Skip ==
    /\ creating.stage = "configure"
    /\ creating' = [creating EXCEPT !.stage = "insert"]
    /\ UNCHANGED <<singleton, sessions, masters, handles, ret, ctlVars,
                   existsVars, armedAt, job>>

\* SetMode, SetSafe, SetSyncTimeout on the dialed session; a panic in one of
\* them is recovered like the one below the dial and the session is neither
\* registered nor closed.
CreateConfigure ==
    /\ creating.stage = "configure"
    /\ \E fault \in BOOLEAN :
         IF fault
           THEN /\ creating' = NotCreating
                /\ ret' = Return(creating.caller, creating.name, NoSession,
                                 NoSession, Nil, "ok", TRUE)
                /\ UNCHANGED masters
           ELSE /\ masters' = [masters EXCEPT ![creating.conn].configured = TRUE]
                /\ creating' = [creating EXCEPT !.stage = "insert"]
                /\ UNCHANGED ret
    /\ UNCHANGED <<singleton, sessions, handles, ctlVars,
                   existsVars, armedAt, job>>

\* CreateSession leaving a name that is already registered with its entry.
CreateInsert_KeepsFirst ==
    /\ creating.stage = "insert"
    /\ IF singleton = Nil
         THEN /\ ret' = Return(creating.caller, creating.name, NoSession,
                               NoSession, Nil, "ok", TRUE)
              /\ UNCHANGED sessions
         ELSE /\ sessions' = IF sessions[creating.name] = NoSession
                               THEN [sessions EXCEPT ![creating.name] = creating.conn]
                               ELSE sessions
              /\ ret' = [Return(creating.caller, creating.name, creating.conn,
                                NoSession, Nil, "ok", FALSE)
                           EXCEPT !.replaced = sessions[creating.name]]
    /\ creating' = NotCreating
    /\ UNCHANGED <<singleton, masters, handles, ctlVars,
                   existsVars, armedAt, job>>

\* singleton.sessions[sessionName] = mongoSession; return err.  With a nil
\* singleton the statement panics and CreateSession still returns nil.
CreateInsert ==
    /\ creating.stage = "insert"
    /\ IF singleton = Nil
         THEN /\ ret' = Return(creating.caller, creating.name, NoSession,
                               NoSession, Nil, "ok", TRUE)
              /\ UNCHANGED sessions
         ELSE /\ sessions' = [sessions EXCEPT ![creating.name] = creating.conn]
              /\ ret' = [Return(creating.caller, creating.name, creating.conn,
                                NoSession, Nil, "ok", FALSE)
                           EXCEPT !.replaced = sessions[creating.name]]
    /\ creating' = NotCreating
    /\ UNCHANGED <<singleton, masters, handles, ctlVars,
                   existsVars, armedAt, job>>

\* The body shared by CopySession and CloneSession, which differ only in
\* the mgo call that derives the handle.  The lookup panics on a
\* nil singleton, Copy()/Clone() panic on a closed session; CatchPanic(nil,
\* ...) recovers both and the named results go back as they are: nil, nil.
AcquireSession(op) ==
    /\ \E useSession \in SessionNames :
         LET session == sessions[useSession] IN
           IF singleton = Nil
             THEN /\ ret' = Return(op, useSession, NoSession, NoSession, Nil,
                                   "none", TRUE)
                  /\ UNCHANGED handles
           ELSE IF session = NoSession
             THEN /\ ret' = Return(op, useSession, NoSession, NoSession,
                                   NotFoundError, "none", FALSE)
                  /\ UNCHANGED handles
           ELSE IF ~masters[session].open
             THEN /\ ret' = Return(op, useSession, session, NoSession, Nil,
                                   "none", TRUE)
                  /\ UNCHANGED handles
           ELSE /\ Len(handles) < MaxHandles
                /\ handles' = Append(handles, [master |-> session, open |-> TRUE])
                /\ ret' = Return(op, useSession, session, Len(handles) + 1, Nil,
                                 "none", FALSE)
    /\ UNCHANGED <<singleton, sessions, masters, creating, ctlVars,
                   existsVars, armedAt, job>>

CopySession == AcquireSession("CopySession")

CloneSession == AcquireSession("CloneSession")

\* CloseSession ending every handle derived from the same master connection
\* together with the one it was given.
CloseSession_ClosesSiblings ==
    /\ \E h \in 1..Len(handles) :
         /\ handles' = [k \in 1..Len(handles) |->
                          IF handles[k].master = handles[h].master
                            THEN [handles[k] EXCEPT !.open = FALSE]
                            ELSE handles[k]]
         /\ ret' = Return("CloseSession", "", NoSession, h, Nil, "none", FALSE)
    /\ UNCHANGED <<singleton, sessions, masters, creating, ctlVars,
                   existsVars, armedAt, job>>

\* CloseSession on a handle the caller holds; closing twice is harmless.
CloseSession ==
    /\ \E h \in 1..Len(handles) :
         /\ handles' = [handles EXCEPT ![h].open = FALSE]
         /\ ret' = Return("CloseSession", "", NoSession, h, Nil, "none", FALSE)
    /\ UNCHANGED <<singleton, sessions, masters, creating, ctlVars,
                   existsVars, armedAt, job>>

\* The master connections the map holds an entry for.
Registered == {sessions[n] : n \in SessionNames} \ {NoSession}

\* The masters after CloseSession ran to its end on each one of `closed`.
CloseAll(closed) ==
    [i \in 1..Len(masters) |->
        IF i \in closed THEN [masters[i] EXCEPT !.open = FALSE] ELSE masters[i]]

\* Shutdown with CloseSession's own recover taken away: the first Close that
\* panics unwinds into Shutdown's CatchPanic and ends the loop; the entries
\* the (randomly ordered) range had not reached yet are not attempted.
Shutdown_AbortsOnPanic ==
    /\ creating.stage = "none"
    /\ IF singleton = Nil
         THEN /\ ret' = Return("Shutdown", "", NoSession, NoSession, PanicError,
                               "none", TRUE)
              /\ UNCHANGED masters
         ELSE \E faulty \in SUBSET Registered :
                IF faulty = {}
                  THEN /\ masters' = CloseAll(Registered)
                       /\ ret' = [Return("Shutdown", "", NoSession, NoSession, Nil,
                                         "none", FALSE)
                                    EXCEPT !.attempts = Cardinality(Registered)]
                  ELSE \E reached \in SUBSET (Registered \ faulty) :
                         /\ masters' = CloseAll(reached)
                         /\ ret' = [Return("Shutdown", "", NoSession, NoSession,
                                           PanicError, "none", TRUE)
                                      EXCEPT !.attempts = Cardinality(reached) + 1,
                                             !.faults = 1]
    /\ UNCHANGED <<singleton, sessions, handles, creating, ctlVars,
                   existsVars, armedAt, job>>

\* Shutdown: CloseSession on the connection of every entry of the map; the
\* map itself is not touched.  A Close that panics (the entries in `faulty`)
\* is recovered inside CloseSession by its CatchPanic(nil, ...), so the range
\* goes on to the next entry.  Ranging over the map of a nil singleton
\* panics in Shutdown itself, and there CatchPanic(&err, ...) turns the panic
\* into the result.
Shutdown ==
    /\ creating.stage = "none"
    /\ IF singleton = Nil
         THEN /\ ret' = Return("Shutdown", "", NoSession, NoSession, PanicError,
                               "none", TRUE)
              /\ UNCHANGED masters
         ELSE \E faulty \in SUBSET Registered :
                /\ masters' = CloseAll(Registered \ faulty)
                /\ ret' = [Return("Shutdown", "", NoSession, NoSession, Nil,
                                  "none", FALSE)
                             EXCEPT !.attempts = Cardinality(Registered),
                                    !.faults = Cardinality(faulty)]
    /\ UNCHANGED <<singleton, sessions, handles, creating, ctlVars,
                   existsVars, armedAt, job>>

MongoNext ==
    \/ Startup
    \/ CreateSession
    \/ CreateDial
    \/ CreateConfigure
    \/ CreateInsert
    \/ CopySession
    \/ CloneSession
    \/ CloseSession
    \/ Shutdown

MongoSpec == MongoInit /\ [][MongoNext]_vars

MongoTypeOK ==
    /\ singleton \in {Nil, Manager}
    /\ sessions \in [SessionNames -> 0..Len(masters)]
    /\ Len(masters) <= MaxDials
    /\ \A i \in 1..Len(masters) :
         masters[i] \in [open : BOOLEAN, configured : BOOLEAN]
    /\ Len(handles) <= MaxHandles
    /\ \A h \in 1..Len(handles) :
         handles[h] \in [master : 1..Len(masters), open : BOOLEAN]
    /\ creating.stage \in {"none", "dial", "configure", "insert"}
    /\ creating.conn \in 0..Len(masters)
    /\ ret.op \in {"none", "Startup", "CreateSession", "CopySession",
                   "CloneSession", "CloseSession", "Shutdown"}
    /\ ret.err \in {Nil, NotFoundError, ConnectionError, PanicError}
    /\ ret.handle \in 0..Len(handles)
    /\ ret.attempts \in 0..Cardinality(SessionNames)
    /\ ret.replaced \in 0..Len(masters)
    /\ ret.faults \in 0..ret.attempts
    /\ singleton = Nil => sessions = EmptyRegistry

\* ------------------------------- the revision that asks for every signal
\* The revision of the supervisor whose Start calls signal.Notify(sigChan)
\* with no signal named and has no timeout.  Its Close, its Run's final
\* test, its select's completion case and its LaunchProcessor do what the
\* final revision's do and are modelled by the same actions.
AggressiveInit ==
    /\ MongoIdle /\ ExistsIdle /\ JobsIdle /\ NoSignal
    /\ envSet \in BOOLEAN
    /\ cfgTimeout = 0
    /\ taskDuration = 0
    /\ taskOutcome \in TaskOutcomes
    /\ pc = "init"
    /\ phases = <<>>
    /\ initResult = "pending"
    /\ loaded = FALSE
    /\ TimeoutSeconds = 0
    /\ shutdown = 0
    /\ notified = FALSE
    /\ sigChan = 0
    /\ interrupts = 0
    /\ sigHandled = 0
    /\ timer = "unarmed"
    /\ elapsed = 0
    /\ armedAt = 0
    /\ tpc = "idle"
    /\ observed = FALSE
    /\ runCalls = 0
    /\ delivered = 0
    /\ err = Nil
    /\ startReturns = 0
    /\ stopCalls = 0
    /\ stopErr = Nil
    /\ alerts = {}
    /\ osExit = NoExit
    /\ exitVia = "none"

\* Run's call of Init: with the variable unset Init prints and calls
\* os.Exit(1); a panic is turned by CatchPanicSystem into Init's result,
\* which Run alerts on before os.Exit(1); else Run goes on to Start.
AggressiveRunInit ==
    /\ Alive /\ pc = "init"
    /\ phases' = Append(phases, "init")
    /\ \E outcome \in {"ok", "panic"} :
         IF ~envSet
           THEN /\ initResult' = "fatal"
                /\ pc' = "exited"
                /\ osExitCall(1, "fatal")
                /\ UNCHANGED <<loaded, alerts>>
           ELSE IF outcome = "panic"
             THEN /\ initResult' = "panic"
                  /\ alerts' = CatchPanic(alerts)
                  /\ pc' = "exited"
                  /\ osExitCall(1, "init_panic")
                  /\ UNCHANGED loaded
             ELSE /\ initResult' = "ok"
                  /\ loaded' = TRUE
                  /\ pc' = "start"
                  /\ UNCHANGED <<alerts, exitVars>>
    /\ UNCHANGED <<mongoVars, existsVars, armedAt, job, killVars, inputs, TimeoutSeconds,
                   shutdown, sigVars, timer, elapsed, taskVars, startVars,
                   stopVars>>

\* Start up to its loop: signal.Notify(sigChan) for every signal, the
\* completion channel, go LaunchProcessor.  No timer.
AggressiveStartBegin ==
    /\ Alive /\ pc = "start"
    /\ phases' = Append(phases, "start")
    /\ notified' = TRUE
    /\ tpc' = "running"
    /\ runCalls' = runCalls + 1
    /\ pc' = "poll"
    /\ UNCHANGED <<mongoVars, existsVars, armedAt, job, killVars, inputs, initVars, shutdown,
                   sigChan, interrupts, sigHandled, timer, elapsed, observed,
                   delivered, startVars, stopVars, alerts, exitVars>>

\* select, poll phase: case whatSig := <-sigChan.
AggressivePollSig ==
    /\ Alive /\ pc = "poll"
    /\ sigChan > 0
    /\ sigChan' = sigChan - 1
    /\ whatSig' = sigBuf
    /\ sigBuf' = "none"
    /\ sigHandled' = sigHandled + 1
    /\ pc' = "sig_case"
    /\ UNCHANGED <<mongoVars, existsVars, armedAt, job, inputs, phases, initVars, shutdown,
                   notified, interrupts, timer, elapsed, taskVars, startVars,
                   stopVars, alerts, exitVars>>

\* The body of the signal case: SIGKILL -> os.Exit(1); os.Interrupt -> store
\* 1 in the flag; continue.
AggressiveSigCase ==
    /\ Alive /\ pc = "sig_case"
    /\ IF whatSig = "SIGKILL"
         THEN /\ pc' = "exited"
              /\ osExitCall(1, "sigkill_case")
              /\ UNCHANGED shutdown
         ELSE /\ shutdown' = IF whatSig = "SIGINT" THEN 1 ELSE shutdown
              /\ pc' = "poll"
              /\ UNCHANGED exitVars
    /\ whatSig' = "none"
    /\ UNCHANGED <<mongoVars, existsVars, armedAt, job, sigBuf, inputs, phases, initVars,
                   sigVars, timer, elapsed, taskVars, startVars, stopVars,
                   alerts>>

\* The OS sends the process a signal.  SIGKILL cannot be caught: the kernel
\* ends the process, no code of it runs and the signal never reaches
\* sigChan.  Any other signal is passed on by the signal package without
\* blocking: to the parked select, else into the buffer, else nowhere.
AggressiveSignal ==
    /\ Alive
    /\ interrupts < MaxInterrupts
    /\ interrupts' = interrupts + 1
    /\ \E sig \in SignalKinds :
         IF sig = "SIGKILL"
           THEN /\ osExit' = KilledStatus
                /\ exitVia' = "sigkill"
                /\ UNCHANGED <<pc, sigChan, sigHandled, killVars>>
           ELSE /\ notified
                /\ UNCHANGED exitVars
                /\ IF pc = "wait"
                     THEN /\ pc' = "sig_case"
                          /\ whatSig' = sig
                          /\ sigHandled' = sigHandled + 1
                          /\ UNCHANGED <<sigChan, sigBuf>>
                     ELSE /\ IF sigChan < SigChanCap
                               THEN sigChan' = sigChan + 1 /\ sigBuf' = sig
                               ELSE UNCHANGED <<sigChan, sigBuf>>
                          /\ UNCHANGED <<pc, sigHandled, whatSig>>
    /\ UNCHANGED <<mongoVars, existsVars, armedAt, job, inputs, phases, initVars, shutdown,
                   notified, timer, elapsed, taskVars, startVars, stopVars,
                   alerts>>

AggressiveNext ==
    \/ AggressiveRunInit
    \/ AggressiveStartBegin
    \/ AggressivePollSig
    \/ PollComplete
    \/ PollBlock
    \/ AggressiveSigCase
    \/ CompleteCase
    \/ Stop
    \/ RunExit
    \/ AggressiveSignal
    \/ TaskIsShutdown
    \/ TaskFinish
    \/ TaskPanicCrash

AggressiveSpec == AggressiveInit /\ [][AggressiveNext]_vars

\* ------------------------------------------------- CollectionExists
\* Sequences over S of length at most n.
SeqUpTo(S, n) == UNION {[1..k -> S] : k \in 0..n}

\* The range loop of CollectionExists looking only at the first name.
Contains_FirstOnly(collections, useCollection) ==
    collections # <<>> /\ collections[1] = useCollection

\* for _, collection := range collections { if collection == useCollection
\* { return true } }; return false
RECURSIVE Contains(_, _)
Contains(collections, useCollection) ==
    IF collections = <<>>
      THEN FALSE
      ELSE IF Head(collections) = useCollection
        THEN TRUE
        ELSE Contains(Tail(collections), useCollection)

\* The value CollectionExists returns when it returns.
CollectionExists(listErr, collections, useCollection) ==
    IF listErr THEN FALSE ELSE Contains(collections, useCollection)

\* The arguments and the database's answer of one call.
ExistsInit ==
    /\ CtlIdle /\ MongoIdle /\ JobsIdle
    /\ exSession \in {Nil, "session"}
    /\ exListErr \in BOOLEAN
    /\ exCollections \in SeqUpTo(CollectionNames, MaxCollections)
    /\ exCollection \in CollectionNames
    /\ exPc = "called"
    /\ exResult = FALSE

\* The call.  mongoSession.DB(...) on a nil session panics and nothing in
\* CollectionExists recovers; otherwise the function returns its value.
ExistsCall ==
    /\ exPc = "called"
    /\ IF exSession = Nil
         THEN /\ exPc' = "panicked"
              /\ UNCHANGED exResult
         ELSE /\ exPc' = "returned"
              /\ exResult' = CollectionExists(exListErr, exCollections, exCollection)
    /\ UNCHANGED <<exSession, exListErr, exCollections, exCollection,
                   ctlVars, mongoVars, armedAt, job>>

ExistsNext == ExistsCall

ExistsSpec == ExistsInit /\ [][ExistsNext]_vars

\* ------------------------------------------------------------- typing
TypeOK ==
    /\ MongoTypeOK
    /\ envSet \in BOOLEAN
    /\ cfgTimeout \in 0..MaxTimeout
    /\ taskDuration \in 0..MaxDuration
    /\ taskOutcome \in TaskOutcomes
    /\ pc \in {"init", "start", "poll", "wait", "sig_case", "timeout_case",
               "complete_case", "stop", "decide", "exited"}
    /\ initResult \in {"pending", "ok", "fatal", "panic"}
    /\ loaded \in BOOLEAN
    /\ TimeoutSeconds \in 0..MaxTimeout
    /\ shutdown \in {0, 1}
    /\ notified \in BOOLEAN
    /\ sigChan \in 0..SigChanCap
    /\ interrupts \in 0..MaxInterrupts
    /\ sigHandled \in 0..MaxInterrupts
    /\ timer \in {"unarmed", "armed", "fired", "consumed"}
    /\ elapsed \in Nat
    /\ armedAt \in 0..elapsed
    /\ tpc \in {"idle", "running", "send", "done", "panicking", "crashed"}
    /\ observed \in BOOLEAN
    /\ runCalls \in Nat
    /\ delivered \in Nat
    /\ err \in {Nil, TaskError, PanicError}
    /\ startReturns \in Nat
    /\ stopCalls \in Nat
    /\ stopErr \in {Nil, PanicError}
    /\ alerts \subseteq {"OS INTERRUPT", "PANIC Defered", "Timeout"}
    /\ osExit \in {NoExit, 0, 1, 2, KilledStatus}
    /\ exitVia \in {"none", "fatal", "init_panic", "timeout", "start_err",
                    "return", "task_panic", "sigkill", "sigkill_case"}
    /\ sigBuf \in SignalKinds \cup {"none"}
    /\ whatSig \in SignalKinds \cup {"none"}
    /\ sigBuf # "none" => sigChan = 1

\* ============================================================== claims

\* The control loop of start has been entered.
LoopEntered == timer # "unarmed"

\* The select took the timeout case.
TimeoutTaken == timer = "consumed"

\* Run itself ended the process (os.Exit in Run, init or start, or return).
EndedByRun == exitVia \in {"fatal", "init_panic", "timeout", "start_err", "return"}

\* C1 (as claimed): with a timeout shorter than the task, once the timeout
\* has fired while the task's completion is still undelivered, the
\* supervisor never takes the completion; it can only go down the timeout
\* path.
C1_TimeoutPrecedence ==
    [][(cfgTimeout < taskDuration /\ timer = "fired" /\ tpc \in {"running", "send"})
          => pc' # "complete_case"]_vars

\* C2 (as claimed): whenever the process has ended after start was entered,
\* by task success, task error or the timeout path, stop was invoked.
C2_CloseAlwaysInvoked ==
    (Len(phases) >= 2 /\ exitVia \in {"return", "start_err", "timeout"})
        => stopCalls >= 1

\* C2 (amended): when Run ends the process after start returned, stop was
\* invoked; when the timeout case was taken, stop is never invoked.
C2_CloseUnlessTimeout ==
    /\ (Len(phases) >= 2 /\ exitVia \in {"return", "start_err"}) => stopCalls >= 1
    /\ TimeoutTaken => stopCalls = 0

C2_Witness ==
    exitVia = "timeout" /\ osExit = 1 /\ stopCalls = 0 /\ tpc = "send"

\* C3: when start has returned, stop is invoked exactly once: not before
\* start's return, not twice, and before Run decides the exit status.
C3_StopOnceAfterStart ==
    /\ stopCalls <= 1
    /\ startReturns = 0 => stopCalls = 0
    /\ pc = "stop" => (startReturns = 1 /\ stopCalls = 0 /\ ~EndedByRun)
    /\ pc = "decide" => (startReturns = 1 /\ stopCalls = 1)
    /\ exitVia \in {"return", "start_err"} => (startReturns = 1 /\ stopCalls = 1)

C3_Witness ==
    pc = "decide" /\ startReturns = 1 /\ stopCalls = 1 /\ err = TaskError

\* C4 (as claimed): when a single source has fired and the process has been
\* ended by Run, start has returned exactly once.
C4_ReturnsOncePerSource ==
    (LoopEntered /\ interrupts = 0 /\ EndedByRun /\ ~(TimeoutTaken /\ Received))
        => startReturns = 1

\* The race of start is resolved.
Resolved == TimeoutTaken \/ Received \/ startReturns >= 1

\* C4 (amended): start returns at most once and, unless it panicked, only
\* on a received completion; the timeout path never returns from start; an
\* interrupt alone resolves nothing; once the race is resolved no event of
\* any source is taken by the supervisor any more.
C4_SingleResolvedRace ==
    /\ [](/\ startReturns <= 1
          /\ TimeoutTaken => (startReturns = 0 /\ ~Received)
          /\ (startReturns = 1 /\ err # PanicError) => Received
          /\ (LoopEntered /\ ~TimeoutTaken /\ ~Received)
                => (startReturns = 0 /\ Alive))
    /\ [][Resolved => /\ sigHandled' = sigHandled
                      /\ shutdown' = shutdown
                      /\ TimeoutTaken' = TimeoutTaken
                      /\ Received' = Received
                      /\ startReturns' >= startReturns]_vars

C4_Witness ==
    /\ Received /\ startReturns = 1
    /\ timer = "fired" /\ sigChan = 1 /\ sigHandled = 0

\* C5: when Run ends the process the status is 1 if init failed, start
\* returned a non-nil error or the timeout case was taken, and 0 otherwise.
C5_ExitStatus ==
    EndedByRun =>
        osExit = IF \/ initResult \in {"fatal", "panic"}
                    \/ (startReturns = 1 /\ err # Nil)
                    \/ TimeoutTaken
                 THEN 1 ELSE 0

C5_Witness ==
    exitVia = "return" /\ osExit = 0 /\ shutdown = 1 /\ stopErr = PanicError

\* C6: the shutdown flag starts at 0, is 0 or 1, and never goes back from 1.
C6_ShutdownMonotonic ==
    /\ shutdown = 0
    /\ [](shutdown \in {0, 1})
    /\ [][shutdown = 1 => shutdown' = 1]_vars

C6_Witness ==
    shutdown = 1 /\ sigHandled = 2 /\ pc \in {"poll", "wait"}

\* C7: the step that handles an interrupt sets the flag and goes back to
\* the select; while an interrupt is being handled start does not return
\* and the process does not end; after a handled interrupt start has
\* returned or the process has ended only if the timeout case was taken or
\* the completion was received.
C7_InterruptAdvisory ==
    /\ [][pc = "sig_case" => /\ pc' \in {"sig_case", "poll"}
                             /\ pc' = "poll" => shutdown' = 1
                             /\ startReturns' = startReturns
                             /\ osExit' = NoExit /\ exitVia' = "none"]_vars
    /\ []((sigHandled >= 1 /\ (startReturns >= 1 \/ ~Alive))
             => (TimeoutTaken \/ Received))

C7_Witness ==
    pc = "wait" /\ sigHandled >= 1 /\ shutdown = 1 /\ startReturns = 0

\* C8: a completion received from a task whose Run returned makes start
\* return exactly what Run returned, and Run then ends the process with 0
\* for nil and 1 for an error.
C8_StartReturnsTaskResult ==
    (Received /\ taskOutcome \in {"nil", "error"}) =>
        /\ err = (IF taskOutcome = "error" THEN TaskError ELSE Nil)
        /\ ~Alive => /\ exitVia = (IF taskOutcome = "error" THEN "start_err" ELSE "return")
                     /\ osExit = (IF taskOutcome = "error" THEN 1 ELSE 0)

C8_Witness ==
    /\ taskOutcome = "error" /\ taskDuration < cfgTimeout
    /\ Received /\ timer = "armed" /\ osExit = 1

\* C9 (as claimed): with a timeout shorter than the task, a process that
\* has ended ended non-zero, after an alert for the timeout, and without
\* the supervisor receiving the task's completion.
C9_TimeoutAlertsAndExits ==
    (LoopEntered /\ cfgTimeout < taskDuration /\ ~Alive) =>
        /\ osExit # 0
        /\ "Timeout - Killing Program" \in alerts
        /\ ~Received

\* C10: the phases are entered in the order init, start, stop, each at most
\* once, start only after init ended without error.
PhaseOrder == <<"init", "start", "stop">>

C10_PhaseOrder ==
    /\ [](/\ Len(phases) <= 3
          /\ phases = SubSeq(PhaseOrder, 1, Len(phases))
          /\ Len(phases) >= 2 => initResult = "ok")
    /\ [][phases' # phases => phases' = Append(phases, PhaseOrder[Len(phases) + 1])]_vars

C10_Witness ==
    phases = PhaseOrder /\ exitVia = "return"

\* C11: userControl.Run is invoked at most once, only by start on its way
\* into the control loop, however many signals are handled.
C11_OneTask ==
    /\ [](runCalls <= 1 /\ (runCalls = 0 <=> tpc = "idle"))
    /\ [][runCalls' # runCalls => (pc = "start" /\ runCalls = 0 /\ sigHandled = 0)]_vars

C11_Witness ==
    runCalls = 1 /\ sigHandled = 2 /\ shutdown = 1 /\ tpc = "running" /\ pc = "wait"

\* C12: with the environment variable unset, init ends the process with
\* status 1; start and the task's Run are never invoked and the straps are
\* never loaded.
C12_EnvMissingAborts ==
    ~envSet =>
        /\ "start" \notin {phases[i] : i \in 1..Len(phases)}
        /\ runCalls = 0
        /\ ~loaded
        /\ initResult # "pending" => (initResult # "ok" /\ osExit = 1 /\ pc = "exited")

C12_Witness ==
    ~envSet /\ initResult = "fatal" /\ exitVia = "fatal" /\ osExit = 1

\* C13: a panic in init ends the process with status 1 inside init: init
\* does not return, start is not entered.
C13_InitPanicExits ==
    initResult = "panic" =>
        /\ osExit = 1 /\ exitVia = "init_panic"
        /\ pc = "exited"
        /\ phases = <<"init">>
        /\ runCalls = 0 /\ startReturns = 0

C13_Witness ==
    initResult = "panic" /\ envSet /\ loaded /\ osExit = 1

\* C14 (as claimed): when the task panicked, start does not return nil and
\* a process that has ended did not end with status 0; when start itself
\* panicked it returns a non-nil error and the status is not 0.
C14_StartPanicNonZero ==
    /\ (taskOutcome = "panic" /\ startReturns = 1) => err # Nil
    /\ (taskOutcome = "panic" /\ Received /\ ~Alive) => osExit # 0
    /\ (err = PanicError /\ ~Alive) => osExit # 0

\* C15: stop's step changes neither start's result nor the exit status, and
\* when stop failed Run still ends the process with 0 for a nil result of
\* start and 1 otherwise.
C15_StopNeverChangesStatus ==
    /\ [][stopCalls' # stopCalls => (err' = err /\ osExit' = osExit /\ exitVia' = exitVia)]_vars
    /\ []((stopErr = PanicError /\ EndedByRun)
            => osExit = (IF err = Nil THEN 0 ELSE 1))

C15_Witness ==
    /\ stopErr = PanicError /\ "PANIC Defered" \in alerts
    /\ err = Nil /\ osExit = 0 /\ sigHandled = 0

\* The task goroutine has been launched and has not delivered its completion.
TaskUnfinished == tpc \in {"running", "send"}

C17_OneShotCompletion ==
    /\ delivered <= runCalls
    /\ delivered <= 1
    /\ delivered = 1 <=> Received
    /\ (startReturns = 1 /\ runCalls = 1) => delivered = 1

C17_Witness ==
    delivered = 1 /\ startReturns = 1 /\ tpc = "done" /\ sigHandled >= 1

\* C18: the flag is 1 only after a signal was handled, and only the step of
\* the signal case changes it.
C18_FlagWrittenOnInterruptOnly ==
    /\ [](shutdown = 1 => sigHandled >= 1)
    /\ [][shutdown' # shutdown => (pc = "sig_case" /\ pc' = "poll")]_vars

C18_Witness ==
    shutdown = 1 /\ observed /\ sigHandled = 1 /\ Received

\* The manager calls that acquire a handle.
Acquires == {"CopySession", "CloneSession"}

\* C19 (as claimed): an acquire that found no entry under the name returns
\* the not-found error and no handle; an acquire that found an entry returns
\* a handle derived from that entry's master connection and a nil error.
C19_AcquireContract ==
    ret.op \in Acquires =>
        /\ ret.entry = NoSession =>
               (ret.err = NotFoundError /\ ret.handle = NoSession)
        /\ ret.entry # NoSession =>
               /\ ret.err = Nil
               /\ ret.handle # NoSession
               /\ handles[ret.handle].master = ret.entry

\* The step in which CreateSession returns because its dial failed.
DialFailed ==
    /\ creating.stage = "dial"
    /\ creating'.stage = "none"
    /\ ret'.dial = "fail"

\* C20: when the dial fails CreateSession returns the (non-nil) dial error
\* and the registry is what it was when CreateSession was called: nothing
\* added, no existing entry or connection touched.
C20_DialFailureKeepsRegistry ==
    /\ [][DialFailed =>
            /\ ret'.err = ConnectionError /\ ret'.err # Nil
            /\ sessions' = creating.before
            /\ sessions' = sessions
            /\ masters' = masters
            /\ singleton' = singleton]_vars
    /\ [](creating.stage # "none" => sessions = creating.before)

C20_Witness ==
    /\ ret.op = "CreateSession" /\ ret.dial = "fail"
    /\ ret.err = ConnectionError
    /\ sessions[ret.name] # NoSession
    /\ masters[sessions[ret.name]].open
    /\ masters[sessions[ret.name]].configured

\* C21: every entry of the map, and every connection a handle was derived
\* from, is a dialed connection that was configured before it was inserted;
\* an acquire running while CreateSession is still dialing or configuring
\* finds the map as it was when CreateSession was entered.
C21_EntriesConfigured ==
    /\ \A m \in Registered : m \in 1..Len(masters) /\ masters[m].configured
    /\ \A h \in 1..Len(handles) : masters[handles[h].master].configured
    /\ creating.stage \in {"dial", "configure", "insert"} =>
           /\ sessions = creating.before
           /\ creating.conn \notin Registered
    /\ (ret.op \in Acquires /\ ret.entry # NoSession) => masters[ret.entry].configured

C21_Witness ==
    /\ creating.stage = "configure"
    /\ ~masters[creating.conn].configured
    /\ ret.op \in Acquires /\ ret.name = creating.name
    /\ ret.err = NotFoundError /\ ~ret.panicked

\* The step in which a Shutdown call runs (every other manager step either
\* names another call in ret or moves `creating`).
ShutdownStep == ret'.op = "Shutdown" /\ creating' = creating

\* C22: a Shutdown that finds the singleton makes one CloseSession call for
\* every entry of the map and returns nil, whichever of the Close calls
\* panic; connections are closed only by it and only registered ones.
C22_ShutdownReleasesEveryEntry ==
    /\ [][(ShutdownStep /\ singleton = Manager) =>
            /\ ret'.attempts = Cardinality(Registered)
            /\ ret'.err = Nil /\ ~ret'.panicked
            /\ \A m \in 1..Len(masters) :
                 (m \notin Registered => masters'[m] = masters[m])]_vars
    /\ [][\A m \in 1..Len(masters) :
            (masters[m].open /\ ~masters'[m].open) => ShutdownStep]_vars

C22_Witness ==
    /\ ret.op = "Shutdown" /\ ret.attempts = 2 /\ ret.err = Nil
    /\ creating.stage = "none"
    /\ \E m1, m2 \in Registered :
         m1 # m2 /\ masters[m1].open /\ ~masters[m2].open

\* The last completed call is a Startup whose dial failed.
StartupDialFailed == ret.op = "Startup" /\ ret.dial = "fail"

\* C23: a Startup whose dial failed returned the dial error, not a recovered
\* panic, and left a manager whose map has no "master" entry; an acquire of
\* "master" that follows it reports not-found and gives no handle.
C23_StartupDialFailure ==
    /\ [](StartupDialFailed =>
            /\ ret.err = ConnectionError /\ ~ret.panicked
            /\ singleton = Manager
            /\ sessions[MASTER_SESSION] = NoSession)
    /\ [][(StartupDialFailed /\ ret'.op \in Acquires /\ ret'.name = MASTER_SESSION) =>
            /\ ret'.err = NotFoundError /\ ~ret'.panicked
            /\ ret'.handle = NoSession
            /\ handles' = handles]_vars

C23_Witness ==
    /\ StartupDialFailed /\ ret.err = ConnectionError
    /\ creating.stage = "none"
    /\ sessions[MASTER_SESSION] = NoSession
    /\ Len(handles) >= 1 /\ handles[1].open

\* C24 (as claimed): a Startup during which CatchPanic recovered a panic
\* returns a non-nil error, and a Startup that returned nil created the
\* "master" entry.
C24_StartupPanicIsError ==
    (ret.op = "Startup" /\ creating.stage = "none") =>
        /\ ret.panicked => ret.err # Nil
        /\ ret.err = Nil => sessions[MASTER_SESSION] # NoSession

\* The names the map holds an entry for.
RegisteredNames == {n \in SessionNames : sessions[n] # NoSession}

\* The last completed call is a CreateSession that wrote the map.
Inserted == ret.op \in {"CreateSession", "Startup"} /\ ret.entry # NoSession

\* The step in which CreateSession writes the map and returns.
InsertStep == creating.stage = "insert" /\ creating'.stage = "none"

\* The step in which CopySession or CloneSession hands out a handle.
AcquireStep == ret'.op \in Acquires /\ Len(handles') = Len(handles) + 1

\* C25: the map write of a successful CreateSession puts the new connection
\* under the name and changes nothing else, so a name that was registered
\* keeps one entry and the number of entries stays; every handle handed out
\* afterwards is derived from the connection the map holds for the name.
C25_ReRegistrationReplaces ==
    /\ [][(InsertStep /\ singleton = Manager) =>
            /\ sessions' = [sessions EXCEPT ![creating.name] = creating.conn]
            /\ creating.conn \notin Registered
            /\ ret'.err = Nil /\ ret'.replaced = sessions[creating.name]
            /\ creating.name \in RegisteredNames =>
                 Cardinality(RegisteredNames') = Cardinality(RegisteredNames)]_vars
    /\ []((Inserted /\ creating.stage = "none") =>
            /\ sessions[ret.name] = ret.entry
            /\ ret.entry # ret.replaced)
    /\ [][AcquireStep =>
            /\ handles'[Len(handles')].master = sessions[ret'.name]
            /\ ret'.handle = Len(handles') /\ ret'.err = Nil]_vars

C25_Witness ==
    /\ Inserted /\ ret.op = "CreateSession" /\ ret.replaced # NoSession
    /\ creating.stage = "none"
    /\ sessions[ret.name] = ret.entry
    /\ masters[ret.replaced].open
    /\ Cardinality(RegisteredNames) = 1

\* C26 (as claimed): the map changes only in the step in which CreateSession
\* writes it, a name that has an entry keeps having one, and a Shutdown in
\* which no Close panicked leaves the connection of every entry closed.
C26_EntriesStayUntilShutdown ==
    /\ [][sessions' # sessions => InsertStep]_vars
    /\ [][\A n \in SessionNames :
            sessions[n] # NoSession => sessions'[n] # NoSession]_vars
    /\ [][(ShutdownStep /\ singleton = Manager /\ ret'.faults = 0) =>
            \A m \in Registered : ~masters'[m].open]_vars

\* The step of a CopySession, CloneSession or CloseSession call.
HandleStep ==
    /\ ret'.op \in Acquires \cup {"CloseSession"}
    /\ creating' = creating

\* C27: an acquire or a release changes neither the singleton, nor the map,
\* nor any master connection; a handle stays as it was handed out, and it
\* stops being open only in the CloseSession call made on that very handle.
C27_HandlesIndependent ==
    /\ [][HandleStep =>
            /\ singleton' = singleton
            /\ sessions' = sessions
            /\ masters' = masters]_vars
    /\ [][\A h \in 1..Len(handles) :
            /\ h \in 1..Len(handles')
            /\ handles'[h].master = handles[h].master
            /\ (handles[h].open /\ ~handles'[h].open) =>
                 (ret'.op = "CloseSession" /\ ret'.handle = h)]_vars

C27_Witness ==
    /\ ret.op = "CloseSession" /\ ret.handle = 1
    /\ Len(handles) = 2
    /\ handles[1].master = handles[2].master
    /\ ~handles[1].open /\ handles[2].open
    /\ Len(masters) = 2

\* C28: when CollectionExists returns, it returns true exactly when the
\* listing succeeded and one of the listed names is the requested one; in
\* particular a failed listing gives false.  It returns for every usable
\* session.
C28_CollectionExists ==
    /\ exPc = "returned" =>
         /\ exResult <=> (~exListErr /\ \E i \in 1..Len(exCollections) :
                                           exCollections[i] = exCollection)
         /\ exListErr => ~exResult
    /\ exPc = "panicked" => exSession = Nil

C28_Witness ==
    /\ exPc = "returned" /\ exResult
    /\ Len(exCollections) = 2
    /\ exCollections[1] # exCollection /\ exCollections[2] = exCollection

\* The process was ended by a SIGKILL sent while Start was in its loop.
KilledInLoop ==
    /\ exitVia \in {"sigkill", "sigkill_case"}
    /\ "start" \in {phases[i] : i \in 1..Len(phases)}
    /\ startReturns = 0

\* C29 (as claimed): a SIGKILL sent while Start waits ends the process with
\* status 1 and Close not invoked; the signal case leaves to the next pass
\* of the loop with the flag set to 1 for an interrupt and with the flag as
\* it was for any other signal.
C29_SignalDispatch ==
    /\ [](KilledInLoop => (osExit = 1 /\ stopCalls = 0))
    /\ [][(pc = "sig_case" /\ pc' # "sig_case" /\ whatSig = "SIGINT") =>
            (shutdown' = 1 /\ pc' = "poll" /\ Alive')]_vars
    /\ [][(pc = "sig_case" /\ pc' # "sig_case" /\ whatSig = "SIGTERM") =>
            (shutdown' = shutdown /\ pc' = "poll" /\ Alive')]_vars

\* C30: the timer is armed in start's entry step and never again; while it
\* is armed no more than TimeoutSeconds have passed since then, it fires at
\* exactly TimeoutSeconds, and the signal case touches neither the timer nor
\* the time that has passed.
C30_TimeoutArmedOnce ==
    /\ [](timer = "armed" => elapsed <= TimeoutSeconds)
    /\ [](timer \in {"fired", "consumed"} => elapsed >= TimeoutSeconds)
    /\ [][timer' = "armed" => (timer = "armed" \/ pc = "start")]_vars
    /\ [][(timer = "armed" /\ timer' # "armed") =>
            (elapsed = TimeoutSeconds /\ elapsed' = elapsed)]_vars
    /\ [][elapsed' >= elapsed]_vars
    /\ [][(pc = "sig_case" /\ pc' # "sig_case") =>
            (timer' = timer /\ elapsed' = elapsed)]_vars

C30_Witness ==
    /\ timer = "fired" /\ elapsed = TimeoutSeconds
    /\ TimeoutSeconds >= 1
    /\ sigHandled = 2 /\ shutdown = 1
    /\ tpc = "running"

\* ------------------------------------- the earlier controller revision
\* The revision whose select makes the timer itself
\* (case <-time.After(TimeoutSeconds * time.Second)).  Its Run, Init, Close,
\* LaunchProcessor, the entry of Start, the select's poll and its completion
\* case do what the final revision's do and are modelled by the same
\* actions; the signal case, the timeout case and the timer differ.

\* The time the pending timer has been running.
SinceArmed == elapsed - armedAt

\* The signal case leaving the timer of the previous pass in place.
EarlierSigCase_KeepsTimer ==
    /\ Alive /\ pc = "sig_case"
    /\ alerts' = ALERT(alerts, "OS INTERRUPT")
    /\ shutdown' = 1
    /\ pc' = "poll"
    /\ UNCHANGED <<mongoVars, existsVars, armedAt, job, killVars, inputs,
                   phases, initVars, sigVars, timer, elapsed, taskVars,
                   startVars, stopVars, exitVars>>

\* case <-sigChan: alert, set the shutdown flag, continue.  The next pass
\* evaluates time.After again: a new timer starts now and the channel of the
\* previous one, fired or not, is never read again.
EarlierSigCase ==
    /\ Alive /\ pc = "sig_case"
    /\ alerts' = ALERT(alerts, "OS INTERRUPT")
    /\ shutdown' = 1
    /\ timer' = "armed"
    /\ armedAt' = elapsed
    /\ pc' = "poll"
    /\ UNCHANGED <<mongoVars, existsVars, job, killVars, inputs, phases,
                   initVars, sigVars, elapsed, taskVars, startVars, stopVars,
                   exitVars>>

\* case <-time.After(...): alert, os.Exit(1).
EarlierTimeoutCase ==
    /\ Alive /\ pc = "timeout_case"
    /\ alerts' = ALERT(alerts, "Timeout")
    /\ pc' = "exited"
    /\ osExitCall(1, "timeout")
    /\ UNCHANGED <<mongoVars, existsVars, armedAt, job, killVars, inputs,
                   phases, initVars, shutdown, sigVars, timer, elapsed,
                   taskVars, startVars, stopVars>>

\* The timer of the current pass expires and sends on its channel.
EarlierTimerFire ==
    /\ Alive /\ timer = "armed"
    /\ SinceArmed >= TimeoutSeconds
    /\ IF pc = "wait"
         THEN /\ timer' = "consumed"
              /\ pc' = "timeout_case"
         ELSE /\ timer' = "fired"
              /\ UNCHANGED pc
    /\ UNCHANGED <<mongoVars, existsVars, armedAt, job, killVars, inputs,
                   phases, initVars, shutdown, sigVars, elapsed, taskVars,
                   startVars, stopVars, alerts, exitVars>>

\* Time advances; the pending timer and the end of the task's Run are not
\* overslept.
EarlierTick ==
    /\ Alive /\ TimePending
    /\ timer = "armed" => SinceArmed < TimeoutSeconds
    /\ (tpc = "running" /\ taskOutcome # "hang") => elapsed < taskDuration
    /\ elapsed' = elapsed + 1
    /\ UNCHANGED <<mongoVars, existsVars, armedAt, job, killVars, inputs, pc,
                   phases, initVars, shutdown, sigVars, timer, taskVars,
                   startVars, stopVars, alerts, exitVars>>

EarlierNext ==
    \/ InitEnvMissing
    \/ InitPanic
    \/ InitOk
    \/ StartBegin
    \/ StartPanic
    \/ PollSig
    \/ PollTimeout
    \/ PollComplete
    \/ PollBlock
    \/ EarlierSigCase
    \/ EarlierTimeoutCase
    \/ CompleteCase
    \/ Stop
    \/ RunExit
    \/ Interrupt
    \/ EarlierTimerFire
    \/ EarlierTick
    \/ TaskIsShutdown
    \/ TaskFinish
    \/ TaskPanicCrash

EarlierSpec == Init /\ [][EarlierNext]_vars

\* The supervisor is inside the control loop of Start.
InLoop == pc \in {"poll", "wait", "sig_case"}

\* C31: in the earlier revision every handled interrupt starts a new timer
\* at the moment the loop continues; the timeout case is taken only when
\* TimeoutSeconds have passed since the last handled interrupt (or since
\* Start, if there was none); and while the task hangs and the last handled
\* interrupt is less than TimeoutSeconds old, Start has not resolved.
C31_InterruptRearmsTimeout ==
    /\ [][(pc = "sig_case" /\ pc' # "sig_case")
            => (timer' = "armed" /\ armedAt' = elapsed /\ pc' = "poll")]_vars
    /\ [](timer \in {"fired", "consumed"} => SinceArmed >= TimeoutSeconds)
    /\ []((taskOutcome = "hang" /\ InLoop /\ SinceArmed < TimeoutSeconds)
            => ~Resolved)

\* A hanging task, the first deadline already passed, and Start still in its
\* loop with a timer, made at the second handled interrupt, that is not due.
C31_Witness ==
    /\ Alive /\ taskOutcome = "hang"
    /\ pc \in {"poll", "wait"}
    /\ sigHandled >= 2
    /\ timer = "armed"
    /\ elapsed > TimeoutSeconds
    /\ SinceArmed < TimeoutSeconds
    /\ ~Resolved

\* ------------------------------------------------ fair scheduling
\* The steps of the main goroutine: Run with its init, start and stop.
Supervisor ==
    \/ InitEnvMissing
    \/ InitPanic
    \/ InitOk
    \/ StartBegin
    \/ StartPanic
    \/ PollSig
    \/ PollTimeout
    \/ PollComplete
    \/ PollBlock
    \/ SigCase
    \/ TimeoutCase
    \/ CompleteCase
    \/ Stop
    \/ RunExit

\* The final revision under a fair scheduler: a goroutine that can run is
\* run, time passes, the runtime delivers an expired timer, and a task whose
\* Run ends reaches its deferred send.  Nothing is assumed about the OS
\* sending interrupts or about the task reading the flag.
FairSpec ==
    /\ Spec
    /\ WF_vars(Supervisor)
    /\ WF_vars(Tick)
    /\ WF_vars(TimerFire)
    /\ WF_vars(TaskFinish)
    /\ WF_vars(TaskPanicCrash)

\* start has returned to Run, or the timeout case has ended the process.
StartResolved == startReturns >= 1 \/ exitVia = "timeout"

\* C32: under fair scheduling every execution that enters start leads to
\* start returning or to the process exiting through the timeout case.
C32_StartResolves == (pc = "start") ~> StartResolved

\* ------------------------------------------- the manager, continued
\* C33 (as claimed): CopySession never returns a nil handle together with a
\* nil error, whatever calls came before it.
C33_CopyNeverNilNil ==
    ret.op = "CopySession" => ~(ret.handle = NoSession /\ ret.err = Nil)

\* C34 (as claimed): when a Shutdown in which no Close panicked returns nil,
\* every master connection that was dialed and configured is closed.
C34_ShutdownReleasesEveryMaster ==
    [][(ShutdownStep /\ ret'.err = Nil /\ ret'.faults = 0) =>
          \A m \in 1..Len(masters') :
              masters'[m].configured => ~masters'[m].open]_vars

\* The step in which CopySession or CloneSession returns for a registered
\* name whose master connection is closed.
AcquireClosedStep ==
    /\ ret'.op \in Acquires /\ creating' = creating
    /\ singleton = Manager
    /\ ret'.name \in RegisteredNames
    /\ ~masters[sessions[ret'.name]].open

\* C35 (as claimed): Shutdown leaves the set of registered names as it was,
\* and an acquire of a registered name whose master connection is closed
\* returns a handle and a nil error.
C35_ShutdownKeepsNamesUsable ==
    /\ [][ShutdownStep => RegisteredNames' = RegisteredNames]_vars
    /\ [][AcquireClosedStep =>
            (ret'.handle # NoSession /\ ret'.err = Nil)]_vars

\* ------------------------------------------------ package data: jobs
\* One call of a job-record operation.  What the manager's CopySession can
\* return is an input: a handle, the not-found error, or neither (nil, nil).
JobOps ==
    {"CleanJobs", "StartJob", "EndJob", "AddJobDetail",
     "AddJobDetailWithSession"}
Acquiring == JobOps \ {"AddJobDetailWithSession"}
AcquireOutcomes == {"handle", "error", "nil"}
OperateOutcomes == {"ok", "error", "panic"}
OwnHandle == 1      \* the handle CopySession gave this call
CallerHandle == 2   \* the handle passed to AddJobDetailWithSession
OperationError == "operation error"

\* The number of CloseSession calls made on handle h.
Releases(h) == Cardinality({i \in 1..Len(job.released) : job.released[i] = h})

\* The call and its arguments.  CleanJobs looks at the clock; only
\* AddJobDetailWithSession is handed a session, which may be nil.
JobsInit ==
    /\ CtlIdle /\ MongoIdle /\ ExistsIdle
    /\ \E op \in JobOps, w \in BOOLEAN, a \in AcquireOutcomes,
          o \in OperateOutcomes, passed \in {CallerHandle, NoSession} :
         /\ op # "CleanJobs" => ~w
         /\ op \in Acquiring => passed = NoSession
         /\ op \notin Acquiring => a = "handle"
         /\ job = [NoJob EXCEPT !.op = op, !.pc = "called", !.inWindow = w,
                                !.acquire = IF op \in Acquiring THEN a ELSE "none",
                                !.outcome = o, !.handle = passed]

\* CleanJobs outside 12:00AM - 12:05AM: nothing is acquired.
CleanJobsSkip ==
    /\ job.pc = "called" /\ job.op = "CleanJobs" /\ ~job.inWindow
    /\ job' = [job EXCEPT !.pc = "returned"]
    /\ UNCHANGED <<ctlVars, mongoVars, existsVars, armedAt>>

\* The operation deferring CloseSession right after the call of CopySession,
\* before it tests the error.
JobAcquire_DeferFirst ==
    /\ job.pc = "called" /\ job.op \in Acquiring
    /\ job.op = "CleanJobs" => job.inWindow
    /\ job' = CASE job.acquire = "error" ->
                     [job EXCEPT !.err = NotFoundError, !.deferred = TRUE,
                                 !.pc = "release"]
                [] job.acquire = "handle" ->
                     [job EXCEPT !.handle = OwnHandle,
                                 !.acquired = Append(@, OwnHandle),
                                 !.deferred = TRUE, !.pc = "acquired"]
                [] OTHER ->
                     [job EXCEPT !.deferred = TRUE, !.pc = "acquired"]
    /\ UNCHANGED <<ctlVars, mongoVars, existsVars, armedAt>>

\* mongoSession, err := mongo.CopySession(...); on an error the operation
\* returns it; otherwise it defers mongo.CloseSession(goRoutine, mongoSession)
\* with whatever mongoSession is, nil included.
JobAcquire ==
    /\ job.pc = "called" /\ job.op \in Acquiring
    /\ job.op = "CleanJobs" => job.inWindow
    /\ job' = CASE job.acquire = "error" ->
                     [job EXCEPT !.err = NotFoundError, !.pc = "returned"]
                [] job.acquire = "handle" ->
                     [job EXCEPT !.handle = OwnHandle,
                                 !.acquired = Append(@, OwnHandle),
                                 !.deferred = TRUE, !.pc = "acquired"]
                [] OTHER ->
                     [job EXCEPT !.deferred = TRUE, !.pc = "acquired"]
    /\ UNCHANGED <<ctlVars, mongoVars, existsVars, armedAt>>

\* GetCollection and the database operation (RemoveAll, Insert, UpdateId,
\* UpsertId; for AddJobDetail the call of AddJobDetailWithSession).  With a
\* nil session it panics; a panic is turned into err by CatchPanicSystem,
\* after the deferred CloseSession has run.
JobOperate ==
    /\ \/ job.pc = "acquired"
       \/ job.pc = "called" /\ job.op \notin Acquiring
    /\ LET effect == IF job.handle = NoSession THEN "panic" ELSE job.outcome IN
         job' = [job EXCEPT
                   !.err = CASE effect = "ok" -> Nil
                             [] effect = "error" -> OperationError
                             [] OTHER -> PanicError,
                   !.pc = IF job.deferred THEN "release" ELSE "returned"]
    /\ UNCHANGED <<ctlVars, mongoVars, existsVars, armedAt>>

\* The deferred mongo.CloseSession(goRoutine, mongoSession) runs as the
\* operation returns; on a nil session its Close panics and CloseSession's
\* own CatchPanicSystem(nil, ...) recovers.
JobRelease ==
    /\ job.pc = "release"
    /\ job' = [job EXCEPT !.released = Append(@, job.handle),
                          !.pc = "returned"]
    /\ UNCHANGED <<ctlVars, mongoVars, existsVars, armedAt>>

JobsNext ==
    \/ CleanJobsSkip
    \/ JobAcquire
    \/ JobOperate
    \/ JobRelease

JobsSpec == JobsInit /\ [][JobsNext]_vars

JobsTypeOK ==
    /\ job.op \in JobOps
    /\ job.pc \in {"called", "acquired", "release", "returned"}
    /\ job.inWindow \in BOOLEAN
    /\ job.acquire \in AcquireOutcomes \cup {"none"}
    /\ job.outcome \in OperateOutcomes
    /\ job.handle \in {NoSession, OwnHandle, CallerHandle}
    /\ job.deferred \in BOOLEAN
    /\ Len(job.acquired) <= 1 /\ Len(job.released) <= 1
    /\ job.err \in {Nil, NotFoundError, OperationError, PanicError}

\* C36: a job-record operation never releases a handle twice and has, when
\* it returns, released each handle it acquired exactly once; it makes no
\* release call at all when the acquisition returned an error;
\* AddJobDetailWithSession makes no release call, and the handle passed in
\* by the caller is never released.
C36_ReleaseDiscipline ==
    /\ JobsTypeOK
    /\ Releases(OwnHandle) <= Len(job.acquired)
    /\ job.pc = "returned" => Releases(OwnHandle) = Len(job.acquired)
    /\ job.acquire = "error" => job.released = <<>>
    /\ job.op = "AddJobDetailWithSession" => job.released = <<>>
    /\ Releases(CallerHandle) = 0

\* AddJobDetail returned the error of a panic in the operation, having
\* released the handle it acquired.
C36_Witness ==
    /\ job.op = "AddJobDetail" /\ job.pc = "returned"
    /\ job.acquire = "handle" /\ job.outcome = "panic"
    /\ job.err = PanicError
    /\ job.acquired = <<OwnHandle>> /\ job.released = <<OwnHandle>>
====
